---- MODULE Spec2Model ----
(***************************************************************************)
(* Model of smart_queue.py: the reconstruction of customers from           *)
(* cumulative sensor counts (create_customers_from_sensor) and the         *)
(* four-counter routing simulation (simulate_multi_counter).               *)
(*                                                                         *)
(* Time is counted in half units, so that the service durations            *)
(* 3.5, 5.0, 4.0, 3.0 of the source are the integers 7, 10, 8, 6 and       *)
(* every sum, difference and product of the source is exact.               *)
(* Python lists are sequences; the source's 0-based counter index i is     *)
(* the 1-based index i+1 here, which is also the counter number the        *)
(* source reports (chosen_index + 1).                                      *)
(***************************************************************************)
EXTENDS Integers, Sequences, FiniteSets, TLC

\* ---- bounds of the model
MaxReadings == 2
MaxTotal == 2
MaxCustomers == 22
MaxBatches == 2
MaxCalls == 2
MaxRows == 3

\* timestamps of the inputs, in half units (0.0 and 10.0)
Timestamps == {0, 20}

\* ---- constants of the program
sensor_count == 4
counter_count == 4
max_capacity == 5
\* mutant: every counter serves at the pace of the first
service_timesEqual == <<7, 7, 7, 7>>
service_times == <<7, 10, 8, 6>>

VARIABLES
    pc,               \* "input", "loop" (inside simulate_multi_counter), "returned";
                      \* read_sensor_live: "rows", "read_returned", "read_crashed";
                      \* main: "main_returned", "main_stats", "main_crashed", "main_done"
    rows,             \* read_sensor_live: the rows the for loop has taken from the reader
    data,             \* read_sensor_live: data
    sensor_data,      \* the readings create_customers_from_sensor has iterated over
    previous,         \* create_customers_from_sensor: previous counts
    customer_id,      \* create_customers_from_sensor: next id
    customers,        \* the customer list
    counters,         \* simulate_multi_counter: the counter records
    k,                \* simulate_multi_counter: customers consumed by the for loop
    results,          \* simulate_multi_counter: results
    suggestions,      \* simulate_multi_counter: suggestions
    screen_messages,  \* simulate_multi_counter: screen_messages
    returned,         \* what each finished call of simulate_multi_counter returned
    stats,            \* main: the wait-time statistics printed
    files             \* main: what save_outputs wrote

vars == <<pc, rows, data, sensor_data, previous, customer_id, customers, counters, k,
          results, suggestions, screen_messages, returned, stats, files>>

sensorVars == <<sensor_data, previous>>
simVars == <<counters, k, results, suggestions, screen_messages>>
ioVars == <<rows, data, stats, files>>

\* ---- helpers on sequences
RECURSIVE SumSeq(_)
SumSeq(s) == IF s = <<>> THEN 0 ELSE Head(s) + SumSeq(Tail(s))

Range(s) == {s[i] : i \in DOMAIN s}

\* ======================================================================
\* create_customers_from_sensor
\* ======================================================================

\* the readings the model feeds: a timestamp and four cumulative counts
Readings ==
    {<<ts>> \o c : ts \in Timestamps,
                   c \in {v \in [1..sensor_count -> 0..MaxTotal] : SumSeq(v) <= MaxTotal}}

\* current = np.array([c1, c2, c3, c4])
Current(reading) == [i \in 1..sensor_count |-> reading[i + 1]]

\* increments = current - previous
Increments(current, prev) == [i \in 1..sensor_count |-> current[i] - prev[i]]

\* mutant: customer_id is not advanced inside the inner loop
EmitForSensorSameId(inc, ts, id) ==
    IF inc > 0
    THEN [j \in 1..inc |-> [id |-> id, arrival |-> ts]]
    ELSE <<>>

\* for _ in range(increments[counter_index]): customers.append(...); customer_id += 1
EmitForSensor(inc, ts, id) ==
    IF inc > 0
    THEN [j \in 1..inc |-> [id |-> id + (j - 1), arrival |-> ts]]
    ELSE <<>>

\* for counter_index in range(4): ... ; the customers one reading appends
RECURSIVE EmitFrom(_, _, _, _)
EmitFrom(counter_index, increments, ts, id) ==
    IF counter_index > sensor_count
    THEN <<>>
    ELSE LET new == EmitForSensor(increments[counter_index], ts, id)
         IN  new \o EmitFrom(counter_index + 1, increments, ts, id + Len(new))

\* mutant: the baseline is never moved to the current counts
NextPreviousStale(current, prev) == prev

\* mutant: the baseline never moves down
NextPreviousMax(current, prev) ==
    [i \in 1..sensor_count |-> IF current[i] > prev[i] THEN current[i] ELSE prev[i]]

\* previous = current
NextPrevious(current, prev) == current

\* the body of "for ts, c1, c2, c3, c4 in sensor_data", for the next reading
ReadingStep(reading) ==
    /\ pc = "input"
    /\ LET ts == reading[1]
           current == Current(reading)
           increments == Increments(current, previous)
           new == EmitFrom(1, increments, ts, customer_id)
       IN  /\ customers' = customers \o new
           /\ customer_id' = customer_id + Len(new)
           /\ previous' = NextPrevious(current, previous)
    /\ sensor_data' = Append(sensor_data, reading)
    /\ UNCHANGED <<pc, returned>>
    /\ UNCHANGED simVars
    /\ UNCHANGED ioVars

\* one iteration of the loop, on a list of at most MaxReadings readings
ProcessReading(reading) ==
    /\ Len(sensor_data) < MaxReadings
    /\ ReadingStep(reading)

\* one iteration of the loop, on a list long enough for a count to rise,
\* fall and rise again: the readings bear one timestamp and the last sensor
\* stays at 0
ResetReadings == {reading \in Readings : reading[1] = 0 /\ reading[sensor_count + 1] = 0}

ProcessReset(reading) ==
    /\ Len(sensor_data) < MaxReadings + 1
    /\ ReadingStep(reading)

\* ======================================================================
\* simulate_multi_counter
\* ======================================================================

\* number of places where the arrival changes from one customer to the next
Changes(cs) == Cardinality({i \in 1..(Len(cs) - 1) : cs[i].arrival # cs[i + 1].arrival})

\* The customer list handed to simulate_multi_counter, built one customer at
\* a time as create_customers_from_sensor appends them: the next id, and the
\* timestamp of the reading; a reading contributes a batch of customers with
\* the same arrival, and timestamps need not be ordered.
Arrive(ts) ==
    /\ pc = "input"
    /\ Len(customers) < MaxCustomers
    /\ IF customers = <<>>
       THEN TRUE
       ELSE \/ ts = customers[Len(customers)].arrival
            \/ Changes(customers) + 1 < MaxBatches
    /\ customers' = Append(customers, [id |-> customer_id, arrival |-> ts])
    /\ customer_id' = customer_id + 1
    /\ UNCHANGED <<pc, returned>>
    /\ UNCHANGED sensorVars
    /\ UNCHANGED simVars
    /\ UNCHANGED ioVars

\* Before the last call: another customer list of the same length and ids, all
\* its customers arriving at ts
Retime(ts) ==
    /\ pc = "returned"
    /\ Len(returned) = MaxCalls - 1
    /\ customers' = [n \in DOMAIN customers |-> [id |-> customers[n].id, arrival |-> ts]]
    /\ customers' # customers
    /\ UNCHANGED <<pc, customer_id, returned>>
    /\ UNCHANGED sensorVars
    /\ UNCHANGED simVars
    /\ UNCHANGED ioVars

\* counters = [{"free_at": 0.0, "queue": [], "service": service_times[i]} ...]
FreshCounters ==
    [i \in 1..counter_count |->
        [free_at |-> 0, queue |-> <<>>, service |-> service_times[i]]]

\* mutant: the counters live outside the call and are built only once
CallCountersKept(cs) == IF cs = <<>> THEN FreshCounters ELSE cs

\* the counters a call starts from (cs: whatever an earlier call left)
CallCounters(cs) == FreshCounters

\* entry of simulate_multi_counter, up to the for loop
Call ==
    /\ pc \in {"input", "returned"}
    /\ Len(returned) < MaxCalls
    /\ pc' = "loop"
    /\ counters' = CallCounters(counters)
    /\ k' = 0
    /\ results' = <<>>
    /\ suggestions' = <<>>
    /\ screen_messages' = <<>>
    /\ UNCHANGED <<customers, customer_id, returned>>
    /\ UNCHANGED sensorVars
    /\ UNCHANGED ioVars

\* mutant: the joining customer is counted in the queue length
PredictedWaitsAfterJoin(cs) ==
    [i \in 1..counter_count |-> (Len(cs[i].queue) + 1) * cs[i].service]

\* mutant: the prediction is the counter's busy-until time
PredictedWaitsBusy(cs) == [i \in 1..counter_count |-> cs[i].free_at]

\* predicted_waits = [len(counter["queue"]) * counter["service"] for counter in counters]
PredictedWaits(cs) == [i \in 1..counter_count |-> Len(cs[i].queue) * cs[i].service]

\* min(list)
Min(s) == CHOOSE v \in Range(s) : \A w \in Range(s) : v <= w

\* list.index(v): the first position holding v
Index(s, v) == CHOOSE i \in DOMAIN s : s[i] = v /\ \A j \in 1..(i - 1) : s[j] # v

\* mutant: ties resolved to the highest index
ChosenIndexLast(predicted_waits) ==
    CHOOSE i \in DOMAIN predicted_waits :
        /\ predicted_waits[i] = Min(predicted_waits)
        /\ \A j \in (i + 1)..Len(predicted_waits) : predicted_waits[j] # predicted_waits[i]

\* chosen_index = predicted_waits.index(min(predicted_waits))
ChosenIndex(predicted_waits) == Index(predicted_waits, Min(predicted_waits))

\* mutant: the capacity test is strict
IsFullStrict(cs, i) == Len(cs[i].queue) > max_capacity

\* mutant: no counter ever counts as full
IsFullNever(cs, i) == FALSE

\* len(counters[chosen_index]["queue"]) >= max_capacity
IsFull(cs, i) == Len(cs[i].queue) >= max_capacity

\* mutant: a counter holding exactly max_capacity counts as available
AvailableInclusive(cs) ==
    SelectSeq([i \in 1..counter_count |-> i], LAMBDA i : Len(cs[i].queue) <= max_capacity)

\* available = [i for i in range(counter_count) if len(counters[i]["queue"]) < max_capacity]
Available(cs) ==
    SelectSeq([i \in 1..counter_count |-> i], LAMBDA i : Len(cs[i].queue) < max_capacity)

\* mutant: ties between equally short queues resolved to the highest index
MinByQueueLast(available, cs) ==
    LET p == CHOOSE p \in DOMAIN available :
                 /\ \A q \in DOMAIN available :
                        Len(cs[available[p]].queue) <= Len(cs[available[q]].queue)
                 /\ \A q \in (p + 1)..Len(available) :
                        Len(cs[available[q]].queue) # Len(cs[available[p]].queue)
    IN  available[p]

\* min(available, key=lambda x: len(counters[x]["queue"])): the first of the
\* elements with the smallest key
MinByQueue(available, cs) ==
    LET p == CHOOSE p \in DOMAIN available :
                 /\ \A q \in DOMAIN available :
                        Len(cs[available[p]].queue) <= Len(cs[available[q]].queue)
                 /\ \A q \in 1..(p - 1) :
                        Len(cs[available[q]].queue) # Len(cs[available[p]].queue)
    IN  available[p]

\* mutant: the screen message names the 0-based index, not the counter number
RedirectScreenIndex(i) == [kind |-> "has space", counter |-> i - 1]

\* the messages: the text with its parameters
RedirectSuggestion(id, i) == [kind |-> "redirected", id |-> id, counter |-> i]
RedirectScreen(i) == [kind |-> "has space", counter |-> i]
FullWarning(id) == [kind |-> "ALL counters FULL", id |-> id]

\* mutant: the operands of the difference are swapped
WaitSwapped(free_at, arrival) == IF arrival - free_at > 0 THEN arrival - free_at ELSE 0

\* mutant: the difference is not clamped at zero
WaitUnclamped(free_at, arrival) == free_at - arrival

\* wait = max(0.0, counter["free_at"] - arrival)
Wait(free_at, arrival) == IF free_at - arrival > 0 THEN free_at - arrival ELSE 0

\* mutant: the counter is marked free at the start of the service
NextFreeAtStart(start, end) == start

\* counter["free_at"] = end
NextFreeAt(start, end) == end

\* mutant: the queue holds only the customer in service
NextQueueReplace(queue, id) == <<id>>

\* mutant: a counter at capacity is emptied when the next customer joins
NextQueueDepart(queue, id) ==
    IF Len(queue) >= max_capacity THEN <<id>> ELSE Append(queue, id)

\* counter["queue"].append(c["id"])
NextQueue(queue, id) == Append(queue, id)

\* one iteration of "for c in customers"
Route ==
    /\ pc = "loop"
    /\ k < Len(customers)
    /\ LET c == customers[k + 1]
           arrival == c.arrival
           predicted_waits == PredictedWaits(counters)
           first_choice == ChosenIndex(predicted_waits)
           full == IsFull(counters, first_choice)
           available == Available(counters)
           chosen_index ==
               IF full /\ available # <<>>
               THEN MinByQueue(available, counters)
               ELSE first_choice
           counter == counters[chosen_index]
           wait == Wait(counter.free_at, arrival)
           start == arrival + wait
           end == start + counter.service
           queue == NextQueue(counter.queue, c.id)
       IN  /\ suggestions' =
                  IF ~full THEN suggestions
                  ELSE IF available # <<>>
                       THEN Append(suggestions, RedirectSuggestion(c.id, chosen_index))
                       ELSE Append(suggestions, FullWarning(c.id))
           /\ screen_messages' =
                  IF ~full THEN screen_messages
                  ELSE IF available # <<>>
                       THEN Append(screen_messages, RedirectScreen(chosen_index))
                       ELSE Append(screen_messages, FullWarning(c.id))
           /\ counters' =
                  [counters EXCEPT ![chosen_index] =
                      [free_at |-> NextFreeAt(start, end),
                       queue |-> queue,
                       service |-> counter.service]]
           /\ results' = Append(results,
                  [id |-> c.id,
                   arrival |-> arrival,
                   start |-> start,
                   end |-> end,
                   wait |-> wait,
                   counter |-> chosen_index,
                   queue_after_join |-> Len(queue),
                   predicted_wait |-> predicted_waits[chosen_index]])
    /\ k' = k + 1
    /\ UNCHANGED <<pc, customers, customer_id, returned>>
    /\ UNCHANGED sensorVars
    /\ UNCHANGED ioVars

\* return results, suggestions, screen_messages
Return ==
    /\ pc = "loop"
    /\ k = Len(customers)
    /\ pc' = "returned"
    /\ returned' = Append(returned,
           [results |-> results,
            suggestions |-> suggestions,
            screen_messages |-> screen_messages])
    /\ UNCHANGED <<customers, customer_id>>
    /\ UNCHANGED sensorVars
    /\ UNCHANGED simVars
    /\ UNCHANGED ioVars

\* ======================================================================
\* read_sensor_live
\* ======================================================================

\* the text of a csv field: an integer, a decimal number, something else
Fields == {"1", "0.5", "x"}

\* the data rows the model feeds: four or five fields, at most one of which
\* is not "1"
Rows ==
    {row \in UNION {[1..n -> Fields] : n \in 4..5} :
        Cardinality({i \in DOMAIN row : row[i] # "1"}) <= 1}

\* float(text) succeeds; its value in half units
IsFloat(text) == text \in {"1", "0.5"}
FloatOf(text) == IF text = "1" THEN 2 ELSE 1

\* int(text) succeeds; its value
IsInt(text) == text = "1"
IntOf(text) == 1

\* ts = float(row[0]); c1 = int(row[1]); ...; c4 = int(row[4]) all succeed
Parses(row) == IsFloat(row[1]) /\ \A i \in 2..5 : IsInt(row[i])

\* (ts, c1, c2, c3, c4)
Parsed(row) == <<FloatOf(row[1]), IntOf(row[2]), IntOf(row[3]), IntOf(row[4]), IntOf(row[5])>>

\* open the file and take the header: a missing file (FileNotFoundError is
\* caught) and a file without header both return []
ReadOpen(file) ==
    /\ pc = "input"
    /\ pc' = IF file = "header" THEN "rows" ELSE "read_returned"
    /\ data' = <<>>
    /\ UNCHANGED <<rows, stats, files>>
    /\ UNCHANGED <<customers, customer_id, returned>>
    /\ UNCHANGED sensorVars
    /\ UNCHANGED simVars

\* one iteration of "for row in r": a short row is skipped; a ValueError of
\* float() or int() is not caught and leaves read_sensor_live and main
ReadRow(row) ==
    /\ pc = "rows"
    /\ Len(rows) < MaxRows
    /\ rows' = Append(rows, row)
    /\ IF Len(row) < 5
       THEN UNCHANGED <<pc, data>>
       ELSE IF Parses(row)
            THEN /\ data' = Append(data, Parsed(row))
                 /\ UNCHANGED pc
            ELSE /\ pc' = "read_crashed"
                 /\ UNCHANGED data
    /\ UNCHANGED <<stats, files>>
    /\ UNCHANGED <<customers, customer_id, returned>>
    /\ UNCHANGED sensorVars
    /\ UNCHANGED simVars

\* return data
ReadReturn ==
    /\ pc = "rows"
    /\ pc' = "read_returned"
    /\ UNCHANGED <<customers, customer_id, returned>>
    /\ UNCHANGED sensorVars
    /\ UNCHANGED simVars
    /\ UNCHANGED ioVars

\* ======================================================================
\* main
\* ======================================================================

\* if not sensor_data: return
MainEarlyReturn ==
    /\ pc = "input"
    /\ sensor_data = <<>>
    /\ pc' = "main_returned"
    /\ UNCHANGED <<customers, customer_id, returned>>
    /\ UNCHANGED sensorVars
    /\ UNCHANGED simVars
    /\ UNCHANGED ioVars

\* customers = create_customers_from_sensor(sensor_data) has returned;
\* results, suggestions, screen_msgs = simulate_multi_counter(customers) is entered
MainSimulate ==
    /\ sensor_data # <<>>
    /\ returned = <<>>
    /\ Call

\* np.max / np.min of an array: defined for a non-empty array
MaxOf(s) == CHOOSE v \in Range(s) : \A w \in Range(s) : v >= w
MinOf(s) == CHOOSE v \in Range(s) : \A w \in Range(s) : v <= w

\* wait_times = np.array([r["wait"] for r in results])
WaitTimes(rs) == [n \in DOMAIN rs |-> rs[n].wait]

\* np.max(wait_times) raises ValueError on a zero-size array; np.mean of one
\* has already given nan (with a warning) on the line before
RaisesValueError(wait_times) == wait_times = <<>>

\* the three statistics printed: the mean as the pair sum, count
Statistics(wait_times) ==
    <<<<SumSeq(wait_times), Len(wait_times)>>, MaxOf(wait_times), MinOf(wait_times)>>

\* the statistics block of main, after simulate_multi_counter has returned
MainStatistics ==
    /\ pc = "returned"
    /\ LET wait_times == WaitTimes(returned[Len(returned)].results)
       IN  IF RaisesValueError(wait_times)
           THEN /\ pc' = "main_crashed"
                /\ stats' = <<"nan">>
           ELSE /\ pc' = "main_stats"
                /\ stats' = Statistics(wait_times)
    /\ UNCHANGED <<rows, data, files>>
    /\ UNCHANGED <<customers, customer_id, returned>>
    /\ UNCHANGED sensorVars
    /\ UNCHANGED simVars

\* save_outputs(results, suggestions, screen_msgs)
MainSave ==
    /\ pc = "main_stats"
    /\ pc' = "main_done"
    /\ files' = [queue_smart |-> returned[Len(returned)].results,
                 suggestions |-> returned[Len(returned)].suggestions,
                 screen_messages |-> returned[Len(returned)].screen_messages]
    /\ UNCHANGED <<rows, data, stats>>
    /\ UNCHANGED <<customers, customer_id, returned>>
    /\ UNCHANGED sensorVars
    /\ UNCHANGED simVars

\* ======================================================================
\* specifications
\* ======================================================================

Init ==
    /\ pc = "input"
    /\ rows = <<>>
    /\ data = <<>>
    /\ stats = <<>>
    /\ files = <<>>
    /\ sensor_data = <<>>
    /\ previous = [i \in 1..sensor_count |-> 0]
    /\ customer_id = 1
    /\ customers = <<>>
    /\ counters = <<>>
    /\ k = 0
    /\ results = <<>>
    /\ suggestions = <<>>
    /\ screen_messages = <<>>
    /\ returned = <<>>

\* simulate_multi_counter, called repeatedly on one customer list
Next ==
    \/ \E ts \in Timestamps : Arrive(ts)
    \/ Call
    \/ Route
    \/ Return

Spec == Init /\ [][Next]_vars

\* create_customers_from_sensor on a list of readings
SensorNext == \E reading \in Readings : ProcessReading(reading)

SensorSpec == Init /\ [][SensorNext]_vars

\* create_customers_from_sensor on readings whose counts may fall and rise again
ResetNext == \E reading \in ResetReadings : ProcessReset(reading)

ResetSpec == Init /\ [][ResetNext]_vars

\* simulate_multi_counter, called on customer lists that differ in the arrivals only
RetimeNext ==
    \/ Next
    \/ \E ts \in Timestamps : Retime(ts)

RetimeSpec == Init /\ [][RetimeNext]_vars

\* read_sensor_live on a csv file
ReadNext ==
    \/ \E file \in {"missing", "empty", "header"} : ReadOpen(file)
    \/ \E row \in Rows : ReadRow(row)
    \/ ReadReturn

ReadSpec == Init /\ [][ReadNext]_vars

\* main, from the loaded readings on
MainNext ==
    \/ \E reading \in Readings : ProcessReading(reading)
    \/ MainEarlyReturn
    \/ MainSimulate
    \/ Route
    \/ Return
    \/ MainStatistics
    \/ MainSave

MainSpec == Init /\ [][MainNext]_vars

\* ======================================================================
\* properties
\* ======================================================================

\* a step that processes one customer of the for loop
RouteStep == pc = "loop" /\ Len(results') = Len(results) + 1

\* the result the step appends, and the customer it is about
NewResult == results'[Len(results')]
Routed == customers[k + 1]

\* queue length and predicted wait of counter i at decision time
QLen(i) == Len(counters[i].queue)
Predicted(i) == QLen(i) * service_times[i]

\* c is the minimum-predicted-wait counter, ties to the lowest index
IsMinWait(c) ==
    /\ \A j \in 1..counter_count : Predicted(c) <= Predicted(j)
    /\ \A j \in 1..(c - 1) : Predicted(j) > Predicted(c)

\* t is the shortest queue among the counters below capacity, ties to the
\* lowest index
IsShortestFree(t) ==
    /\ QLen(t) < max_capacity
    /\ \A j \in 1..counter_count : QLen(j) < max_capacity => QLen(t) <= QLen(j)
    /\ \A j \in 1..(t - 1) : QLen(j) < max_capacity => QLen(j) > QLen(t)

NoAdvisory == suggestions' = suggestions /\ screen_messages' = screen_messages

\* C1: a customer whose minimum-predicted-wait counter (ties to the lowest
\* index) holds fewer than 5 customers is assigned to exactly that counter;
\* from fresh counters the first customer goes to counter 1 and the second
\* to counter 2.
C1_MinWaitAssigned ==
    /\ [][RouteStep =>
            \A c \in 1..counter_count :
                (IsMinWait(c) /\ QLen(c) < 5) =>
                    /\ NewResult.counter = c
                    /\ NewResult.id = Routed.id
                    /\ counters'[c].queue = Append(counters[c].queue, Routed.id)]_vars
    /\ [](pc # "input" =>
            /\ Len(results) >= 1 => results[1].counter = 1
            /\ Len(results) >= 2 => results[2].counter = 2)

\* the first two customers routed, the second one past a tie of three empty counters
C1_Witness ==
    /\ pc = "loop"
    /\ Len(results) = 3
    /\ results[1].counter = 1
    /\ results[2].counter = 2
    /\ results[3].counter = 3

\* C2: when the minimum-predicted-wait counter holds 5 or more and some
\* counter holds fewer than 5, the customer is assigned to the shortest queue
\* among the counters holding fewer than 5 (ties to the lowest index), exactly
\* one redirect advisory pair naming that counter is emitted, and
\* queue_after_join is at most 5.
C2_Redirect ==
    [][(/\ RouteStep
        /\ \E c \in 1..counter_count : IsMinWait(c) /\ QLen(c) >= 5
        /\ \E j \in 1..counter_count : QLen(j) < 5) =>
            \E t \in 1..counter_count :
                /\ IsShortestFree(t)
                /\ NewResult.counter = t
                /\ counters'[t].queue = Append(counters[t].queue, Routed.id)
                /\ suggestions' = Append(suggestions, RedirectSuggestion(Routed.id, t))
                /\ screen_messages' = Append(screen_messages, RedirectScreen(t))
                /\ NewResult.queue_after_join <= 5]_vars

\* a customer has been redirected
C2_Witness ==
    /\ pc = "loop"
    /\ \E n \in DOMAIN suggestions :
           /\ suggestions[n].kind = "redirected"
           /\ \E r \in DOMAIN results :
                  /\ results[r].id = suggestions[n].id
                  /\ results[r].counter = suggestions[n].counter
                  /\ results[r].predicted_wait > 0

\* C3: when all four counters hold 5 or more, the customer joins the
\* minimum-predicted-wait counter although it is full, exactly one
\* "ALL counters FULL" advisory pair naming the customer is emitted, and
\* queue_after_join is the length before the join plus one (6 when every
\* counter holds exactly 5).
C3_AllFull ==
    [][(RouteStep /\ \A j \in 1..counter_count : QLen(j) >= 5) =>
            \E c \in 1..counter_count :
                /\ IsMinWait(c)
                /\ NewResult.counter = c
                /\ counters'[c].queue = Append(counters[c].queue, Routed.id)
                /\ suggestions' = Append(suggestions, FullWarning(Routed.id))
                /\ screen_messages' = Append(screen_messages, FullWarning(Routed.id))
                /\ NewResult.queue_after_join = QLen(c) + 1
                /\ ((\A j \in 1..counter_count : QLen(j) = 5) =>
                        NewResult.queue_after_join = 6)]_vars

\* a customer arrived when every counter held exactly 5 and joined as the sixth
C3_Witness ==
    /\ pc = "loop"
    /\ \E n \in DOMAIN suggestions :
           /\ suggestions[n].kind = "ALL counters FULL"
           /\ screen_messages[n] = suggestions[n]
           /\ \E r \in DOMAIN results :
                  /\ results[r].id = suggestions[n].id
                  /\ results[r].queue_after_join = 6
                  /\ \A i \in 1..counter_count :
                         Len(counters[i].queue) = IF i = results[r].counter THEN 6 ELSE 5

\* ---- create_customers_from_sensor

\* the counts of reading r of readings, and the counts before it (zero at first)
CountsOf(readings, r) == [i \in 1..sensor_count |-> readings[r][i + 1]]
CountsBefore(readings, r) ==
    IF r = 1 THEN [i \in 1..sensor_count |-> 0] ELSE CountsOf(readings, r - 1)

\* every sensor's cumulative count is non-decreasing along readings
NonDecreasing(readings) ==
    \A r \in DOMAIN readings : \A i \in 1..sensor_count :
        CountsOf(readings, r)[i] >= CountsBefore(readings, r)[i]

\* the sum of the final reading's counts
FinalTotal(readings) ==
    IF readings = <<>> THEN 0 ELSE SumSeq(CountsOf(readings, Len(readings)))

\* C4: for readings whose per-sensor cumulative counts are non-decreasing,
\* the number of customers produced is the sum over the four sensors of the
\* final reading's count.
C4_CountEqualsFinalTotal ==
    NonDecreasing(sensor_data) => Len(customers) = FinalTotal(sensor_data)

\* two non-decreasing readings, each of which produced a customer
C4_Witness ==
    /\ Len(sensor_data) = 2
    /\ NonDecreasing(sensor_data)
    /\ FinalTotal(SubSeq(sensor_data, 1, 1)) = 1
    /\ FinalTotal(sensor_data) = 2
    /\ Len(customers) = 2

\* the number of customers reading r of readings adds: its positive increments
Gained(readings, r) ==
    SumSeq([i \in 1..sensor_count |->
               IF CountsOf(readings, r)[i] > CountsBefore(readings, r)[i]
               THEN CountsOf(readings, r)[i] - CountsBefore(readings, r)[i]
               ELSE 0])

\* the arrivals of the customers readings produces: reading by reading, the
\* reading's timestamp once per customer it adds
RECURSIVE ExpectedArrivals(_)
ExpectedArrivals(readings) ==
    IF readings = <<>>
    THEN <<>>
    ELSE ExpectedArrivals(SubSeq(readings, 1, Len(readings) - 1))
             \o [j \in 1..Gained(readings, Len(readings)) |-> readings[Len(readings)][1]]

\* C5: the customers carry ids 1, 2, ..., N in emission order, and each
\* customer's arrival is the timestamp of the reading that produced it.
C5_IdsContiguous ==
    LET arrivals == ExpectedArrivals(sensor_data)
    IN  /\ Len(customers) = Len(arrivals)
        /\ \A n \in DOMAIN customers :
               customers[n] = [id |-> n, arrival |-> arrivals[n]]
        /\ customer_id = Len(customers) + 1

\* two readings with different timestamps, the first adding two customers
\* from one sensor, the second lowering that sensor and raising another
C5_Witness ==
    /\ Len(sensor_data) = 2
    /\ sensor_data[1][1] # sensor_data[2][1]
    /\ \E i \in 1..sensor_count : sensor_data[1][i + 1] = 2 /\ sensor_data[2][i + 1] < 2
    /\ Len(customers) = 3
    /\ customers[2].arrival = sensor_data[1][1]
    /\ customers[3] = [id |-> 3, arrival |-> sensor_data[2][1]]

\* ---- simulate_multi_counter: timing and bookkeeping

\* C6: for every result, wait = max(0, freeAt of the assigned counter before
\* the join - arrival), so wait >= 0; start = arrival + wait, so
\* start >= arrival; and end = start + the assigned counter's service duration.
C6_Timing ==
    /\ [][RouteStep =>
            LET r == NewResult
                before == counters[r.counter].free_at
            IN  /\ r.arrival = Routed.arrival
                /\ r.wait = IF before - r.arrival > 0 THEN before - r.arrival ELSE 0]_vars
    /\ [](pc # "input" =>
            \A n \in DOMAIN results :
                /\ results[n].wait >= 0
                /\ results[n].start = results[n].arrival + results[n].wait
                /\ results[n].start >= results[n].arrival
                /\ results[n].end = results[n].start + service_times[results[n].counter])

\* one customer waited, and another found its counter, used before, idle
C6_Witness ==
    /\ pc = "loop"
    /\ \E n \in DOMAIN results : results[n].wait > 0
    /\ \E n \in DOMAIN results :
           /\ results[n].wait = 0
           /\ results[n].queue_after_join > 1
           /\ results[n].start > 0

C8_AdvisoryIffFull ==
    /\ [][RouteStep =>
            /\ (\E c \in 1..counter_count : IsMinWait(c) /\ QLen(c) >= 5) <=> ~NoAdvisory
            /\ (\A j \in 1..counter_count : QLen(j) < 5) =>
                   (NoAdvisory /\ NewResult.queue_after_join <= 5)]_vars
    /\ [](pc # "input" =>
            ((\A i \in 1..counter_count : Len(counters[i].queue) < 5) =>
                 /\ suggestions = <<>>
                 /\ screen_messages = <<>>
                 /\ \A n \in DOMAIN results : results[n].queue_after_join <= 5))

\* eighteen customers routed without advisory, the nineteenth with one
C8_Witness ==
    /\ pc = "loop"
    /\ Len(results) = 19
    /\ Len(suggestions) = 1
    /\ Len(screen_messages) = 1
    /\ suggestions[1].id = 19
    /\ \A n \in DOMAIN results : results[n].queue_after_join <= 5

\* the positions of results assigned to counter i, in processing order
AssignedTo(i) == SelectSeq([n \in DOMAIN results |-> n], LAMBDA n : results[n].counter = i)

\* C9: per counter, the queue_after_join values of its results, in
\* processing order, are 1, 2, ..., n with n the counter's queue length; every
\* processed customer id is in exactly one queue exactly once, so the four
\* queue lengths sum to the number of processed customers.
C9_QueueAccounting ==
    pc # "input" =>
        /\ \A i \in 1..counter_count :
               LET mine == AssignedTo(i)
               IN  /\ Len(mine) = Len(counters[i].queue)
                   /\ \A m \in DOMAIN mine :
                          /\ results[mine[m]].queue_after_join = m
                          /\ counters[i].queue[m] = results[mine[m]].id
        /\ \A n \in 1..k :
               Cardinality({<<i, m>> \in (1..counter_count) \X (1..k) :
                               /\ m <= Len(counters[i].queue)
                               /\ counters[i].queue[m] = customers[n].id}) = 1
        /\ SumSeq([i \in 1..counter_count |-> Len(counters[i].queue)]) = k
        /\ Len(results) = k

\* a finished run in which every counter served several customers
C9_Witness ==
    /\ pc = "returned"
    /\ k >= 12
    /\ \A i \in 1..counter_count : Len(counters[i].queue) >= 3

\* C10: two calls on the same customer list return identical results and
\* identical advisory sequences; each call starts from fresh counters
\* (freeAt 0, empty queues).
C10_Repeatable ==
    /\ \A a, b \in DOMAIN returned : returned[a] = returned[b]
    /\ (pc = "loop" /\ k = 0) =>
           /\ results = <<>> /\ suggestions = <<>> /\ screen_messages = <<>>
           /\ \A i \in 1..counter_count :
                  counters[i].free_at = 0 /\ counters[i].queue = <<>>

\* two finished calls on a list long enough for waits, a redirect and a full house
C10_Witness ==
    /\ Len(returned) >= 2
    /\ Len(returned[2].results) >= 21
    /\ Len(returned[2].suggestions) >= 3
    /\ \E n \in DOMAIN returned[2].results : returned[2].results[n].wait > 0

\* ---- main

\* C11: once a non-empty list of readings has been loaded, main runs to
\* completion with no fatal error, also when the customer list is empty:
\* the statistics are computed and the three outputs are written.
C11_NoFatalError ==
    /\ pc # "main_crashed"
    /\ pc = "main_stats" => Len(stats) = 3

\* ---- read_sensor_live

\* a row with five numeric fields
WellFormed(row) ==
    /\ Len(row) >= 5
    /\ row[1] \in {"1", "0.5"}
    /\ \A i \in 2..5 : row[i] = "1"

\* C12: a data row with fewer than 5 fields or with a non-numeric field is
\* skipped and reading continues: every well-formed row before and after it
\* is returned, in order.
C12_MalformedSkipped ==
    /\ pc # "read_crashed"
    /\ pc \in {"rows", "read_returned"} =>
           LET kept == SelectSeq(rows, WellFormed)
           IN  data = [n \in DOMAIN kept |-> Parsed(kept[n])]

\* ---- simulate_multi_counter: advisories, order, capacity

\* C13: the suggestion list and the screen-message list have the same length
\* after every customer; each customer adds nothing to both or one entry to
\* each; the entries at one position come from the same customer.
C13_AdvisoriesPaired ==
    /\ [](pc # "input" =>
            /\ Len(suggestions) = Len(screen_messages)
            /\ \A n \in DOMAIN suggestions :
                   IF suggestions[n].kind = "redirected"
                   THEN /\ screen_messages[n].kind = "has space"
                        /\ screen_messages[n].counter = suggestions[n].counter
                   ELSE screen_messages[n] = suggestions[n])
    /\ [][RouteStep =>
            \/ NoAdvisory
            \/ /\ Len(suggestions') = Len(suggestions) + 1
               /\ Len(screen_messages') = Len(screen_messages) + 1
               /\ SubSeq(suggestions', 1, Len(suggestions)) = suggestions
               /\ SubSeq(screen_messages', 1, Len(screen_messages)) = screen_messages
               /\ suggestions'[Len(suggestions')].id = Routed.id
               /\ IF suggestions'[Len(suggestions')].kind = "redirected"
                  THEN screen_messages'[Len(screen_messages')].counter = NewResult.counter
                  ELSE screen_messages'[Len(screen_messages')].id = Routed.id]_vars

\* a run with redirect pairs and an all-full pair, after customers without any
C13_Witness ==
    /\ pc = "loop"
    /\ Len(results) = 21
    /\ Len(suggestions) = 3
    /\ Len(screen_messages) = 3
    /\ suggestions[2].kind = "redirected"
    /\ screen_messages[3].kind = "ALL counters FULL"

\* ---- create_customers_from_sensor: lowered counts

\* a step that processes one reading, the reading, and its counts
ReadingTaken == Len(sensor_data') = Len(sensor_data) + 1
Taken == sensor_data'[Len(sensor_data')]
TakenCounts == [i \in 1..sensor_count |-> Taken[i + 1]]

\* the counts of the reading before it, zero at first
Baseline ==
    IF sensor_data = <<>>
    THEN [i \in 1..sensor_count |-> 0]
    ELSE [i \in 1..sensor_count |-> sensor_data[Len(sensor_data)][i + 1]]

\* what the sensors other than i add: their positive differences
OthersAdd(i) ==
    SumSeq([j \in 1..sensor_count |->
               IF j # i /\ TakenCounts[j] > Baseline[j]
               THEN TakenCounts[j] - Baseline[j]
               ELSE 0])

\* C14: a reading in which a sensor's count is lower than in the previous
\* reading emits no customer for that sensor and removes none, the other
\* sensors of the reading are still processed, and the lowered count is the
\* baseline: the next reading emits its count minus the lowered count for
\* that sensor when that is positive.
C14_LoweredCount ==
    /\ [][ReadingTaken =>
            /\ \A i \in 1..sensor_count :
                   TakenCounts[i] < Baseline[i] =>
                       /\ SubSeq(customers', 1, Len(customers)) = customers
                       /\ Len(customers') = Len(customers) + OthersAdd(i)
                       /\ previous'[i] = TakenCounts[i]
            /\ Len(customers') = Len(customers) + Gained(sensor_data', Len(sensor_data'))]_vars
    /\ [](previous = Baseline)

\* a sensor counted 2, then 0 while another sensor rose, then 1: two
\* customers, one from the other sensor, one for the rise from 0 to 1
C14_Witness ==
    /\ Len(sensor_data) = 3
    /\ \E i, j \in 1..sensor_count :
           /\ i # j
           /\ sensor_data[1][i + 1] = 2 /\ sensor_data[2][i + 1] = 0 /\ sensor_data[3][i + 1] = 1
           /\ sensor_data[1][j + 1] = 0 /\ sensor_data[2][j + 1] = 1 /\ sensor_data[3][j + 1] = 1
    /\ Len(customers) = 4

C16_PredictedWaitOfAssigned ==
    /\ [][RouteStep =>
            /\ NewResult.predicted_wait = Predicted(NewResult.counter)
            /\ (~NoAdvisory /\ \E j \in 1..counter_count : QLen(j) < 5) =>
                   \E c \in 1..counter_count :
                       IsMinWait(c) /\ NewResult.predicted_wait > Predicted(c)]_vars
    /\ [](pc # "input" =>
            \A n \in DOMAIN results :
                results[n].predicted_wait =
                    (results[n].queue_after_join - 1) * service_times[results[n].counter])

\* the redirected customer 19 (counter 2 at length 4, minimum 30 at counter 4)
\* and the all-full customer 21
C16_Witness ==
    /\ pc = "loop"
    /\ Len(results) >= 21
    /\ suggestions[1] = [kind |-> "redirected", id |-> 19, counter |-> 2]
    /\ results[19].predicted_wait = 4 * service_times[2]
    /\ results[21].queue_after_join = 6
    /\ results[21].predicted_wait = 5 * service_times[results[21].counter]

\* the routing part of what a call returned: per customer the counter, the
\* queue length after the join and the predicted wait; per advisory its kind
\* and, for a redirect, the counter named
RoutingOf(out) ==
    [counter |-> [n \in DOMAIN out.results |-> out.results[n].counter],
     queue_after_join |-> [n \in DOMAIN out.results |-> out.results[n].queue_after_join],
     predicted_wait |-> [n \in DOMAIN out.results |-> out.results[n].predicted_wait],
     advisory |-> [n \in DOMAIN out.suggestions |->
                      <<out.suggestions[n].kind, out.suggestions[n].id>>],
     screen |-> out.screen_messages]

\* C17: routing does not depend on arrival times: two customer lists of the
\* same length get the same counter, queue_after_join, predicted_wait and
\* advisory for their k-th customers; only wait, start and end may differ.
C17_ArrivalIndependent ==
    \A a, b \in DOMAIN returned : RoutingOf(returned[a]) = RoutingOf(returned[b])

\* two calls on lists of 21 customers with different arrivals, whose waits differ
C17_Witness ==
    /\ Len(returned) = 2
    /\ Len(returned[1].results) >= 21
    /\ \E n \in DOMAIN returned[1].results :
           /\ returned[1].results[n].arrival # returned[2].results[n].arrival
           /\ returned[1].results[n].wait # returned[2].results[n].wait
    /\ \E n \in DOMAIN returned[1].results :
           returned[1].results[n].arrival = returned[2].results[n].arrival

\* C18: if some counter holds more than 5 customers then all four counters
\* hold at least 5: a customer joins a counter that already holds 5 or more
\* only when no counter holds fewer than 5.
C18_OverCapacityOnlyWhenAllFull ==
    /\ []((\E i \in DOMAIN counters : QLen(i) > 5) =>
              \A j \in 1..counter_count : QLen(j) >= 5)
    /\ [][(RouteStep /\ QLen(NewResult.counter) >= 5) =>
              \A j \in 1..counter_count : QLen(j) >= 5]_vars

\* customer 22 joined counter 1 as its sixth while counter 4 already held 6
C18_Witness ==
    /\ pc = "loop"
    /\ Len(results) = 22
    /\ results[22].queue_after_join = 6
    /\ QLen(results[22].counter) = 6
    /\ \E i \in 1..counter_count : i # results[22].counter /\ QLen(i) = 6
    /\ \A j \in 1..counter_count : QLen(j) >= 5

\* every counter holds max_capacity or more
AllFull == \A j \in 1..counter_count : QLen(j) >= max_capacity

\* the advisories issued for customer id
AdvisoriesOf(id) ==
    {suggestions[n].kind : n \in {m \in DOMAIN suggestions : suggestions[m].id = id}}

\* C19: queues never drain: each counter's queue length never decreases during
\* a run, whatever the arrivals and service completions are, so once all
\* four counters hold 5 or more customers every later customer receives the
\* ALL counters FULL advisory, and none is redirected or routed without one.
C19_QueuesNeverDrain ==
    /\ [][RouteStep =>
              \A i \in 1..counter_count :
                  /\ Len(counters'[i].queue) >= QLen(i)
                  /\ SubSeq(counters'[i].queue, 1, QLen(i)) = counters[i].queue]_vars
    /\ [][(RouteStep /\ AllFull) =>
              /\ suggestions' = Append(suggestions, FullWarning(Routed.id))
              /\ \A j \in 1..counter_count : Len(counters'[j].queue) >= max_capacity]_vars
    /\ [](pc = "loop" =>
              \A a, b \in DOMAIN results :
                  (a < b /\ "ALL counters FULL" \in AdvisoriesOf(results[a].id)) =>
                      AdvisoriesOf(results[b].id) = {"ALL counters FULL"})

\* customers 21 and 22 both got the ALL counters FULL advisory, the second one
\* arriving after an earlier customer of its counter had been served, that
\* customer still being in the counter's queue
C19_Witness ==
    /\ pc = "loop"
    /\ Len(results) = 22
    /\ AdvisoriesOf(results[21].id) = {"ALL counters FULL"}
    /\ AdvisoriesOf(results[22].id) = {"ALL counters FULL"}
    /\ \E n \in 1..20 :
           /\ results[n].counter = results[22].counter
           /\ results[n].end < results[22].arrival
           /\ results[n].id \in Range(counters[results[22].counter].queue)

\* C20: in a run from fresh counters the first 18 customers are routed with
\* no advisory, only the 19th and the 20th are redirected (they fill the last
\* free slots), and the 21st is the first to get the ALL counters FULL
\* advisory, every counter holding exactly 5 when it arrives.
C20_AdvisorySchedule ==
    pc = "loop" =>
        /\ \A n \in DOMAIN results :
               AdvisoriesOf(results[n].id) =
                   IF n <= 18 THEN {}
                   ELSE IF n <= 20 THEN {"redirected"}
                   ELSE {"ALL counters FULL"}
        /\ Len(results) = 18 =>
               SumSeq([i \in 1..counter_count |-> max_capacity - QLen(i)]) = 2
        /\ Len(results) \in 18..19 => \E i \in 1..counter_count : QLen(i) < max_capacity
        /\ Len(results) = 20 => \A i \in 1..counter_count : QLen(i) = max_capacity
        /\ Len(suggestions) >= 2 =>
               /\ suggestions[1] = RedirectSuggestion(results[19].id, results[19].counter)
               /\ suggestions[2] = RedirectSuggestion(results[20].id, results[20].counter)
        /\ \A n \in DOMAIN suggestions : n >= 3 => suggestions[n] = FullWarning(results[18 + n].id)

\* the 21st customer has just been warned, after the two redirects, and is the
\* sixth of its counter
C20_Witness ==
    /\ pc = "loop"
    /\ Len(results) = 21
    /\ Len(suggestions) = 3
    /\ suggestions[1].kind = "redirected"
    /\ suggestions[2].kind = "redirected"
    /\ suggestions[3] = FullWarning(results[21].id)
    /\ results[21].queue_after_join = max_capacity + 1

====
